---- MODULE Spec2Model ----
(***************************************************************************)
(* Model of the lab-report analyzer of src/main.py: the range evaluator    *)
(* is_value_out_of_range, the pattern matcher extract_lab_tests over the   *)
(* catalog LAB_TEST_PATTERNS, the OCR stage extract_text_from_image and    *)
(* the upload endpoint get_lab_tests.                                      *)
(*                                                                         *)
(* A Python str is a sequence of one-character strings.  A float read      *)
(* from a decimal literal is kept exactly, as sign, digits and number of   *)
(* fraction digits.  An exception is a value: the name of its class.       *)
(***************************************************************************)
EXTENDS Integers, Sequences, FiniteSets, TLC

VARIABLES
    value,            \* is_value_out_of_range: argument value
    reference_range,  \* is_value_out_of_range: argument reference_range
    verdict,          \* is_value_out_of_range: how the call ended
    catalog,          \* the module global LAB_TEST_PATTERNS
    pc,               \* per request: position in get_lab_tests
    upload,           \* per request: the multipart field "file"
    contents,         \* per request: the bytes read from the upload
    img,              \* per request: result of cv2.imdecode
    text,             \* per request: the OCR text
    exc,              \* per request: the exception caught in extract_text_from_image
    matcher_ran,      \* per request: extract_lab_tests was called
    response          \* per request: the HTTP answer

vars == <<value, reference_range, verdict, catalog, pc, upload, contents,
          img, text, exc, matcher_ran, response>>

rangeVars == <<value, reference_range, verdict>>
requestVars == <<pc, upload, contents, img, text, exc, matcher_ran, response>>

-----------------------------------------------------------------------------
(* Bounds *)

\* longest dash-free piece of an enumerated value or range string
MaxPartLen == 2
\* number of report lines in an enumerated OCR text
MaxLines == 2
\* number of requests in flight
NumRequests == 2

-----------------------------------------------------------------------------
(* Python str and float *)

Digits == {"0", "1", "2", "3", "4", "5", "6", "7", "8", "9"}

DigitVal(c) ==
    CASE c = "0" -> 0 [] c = "1" -> 1 [] c = "2" -> 2 [] c = "3" -> 3
      [] c = "4" -> 4 [] c = "5" -> 5 [] c = "6" -> 6 [] c = "7" -> 7
      [] c = "8" -> 8 [] c = "9" -> 9

RECURSIVE Pow10(_)
Pow10(n) == IF n = 0 THEN 1 ELSE 10 * Pow10(n - 1)

\* str.split(sep): the pieces of s between the occurrences of sep
RECURSIVE SplitFrom(_, _, _, _)
SplitFrom(s, sep, k, piece) ==
    IF k > Len(s) THEN <<piece>>
    ELSE IF s[k] = sep THEN <<piece>> \o SplitFrom(s, sep, k + 1, <<>>)
    ELSE SplitFrom(s, sep, k + 1, Append(piece, s[k]))

Split(s, sep) == SplitFrom(s, sep, 1, <<>>)

\* the integer written by a sequence of digits and points, points skipped
RECURSIVE DigitsValue(_, _, _)
DigitsValue(s, k, acc) ==
    IF k > Len(s) THEN acc
    ELSE IF s[k] = "." THEN DigitsValue(s, k + 1, acc)
    ELSE DigitsValue(s, k + 1, 10 * acc + DigitVal(s[k]))

Count(s, set) == Cardinality({k \in 1..Len(s) : s[k] \in set})

PointAt(s) == CHOOSE k \in 1..Len(s) : s[k] = "."

\* float(s) for s over digits, point, sign and letters: an optional sign,
\* then digits with at most one point and at least one digit; anything
\* else raises ValueError.  The number is sign * num / 10^frac.
Float(s) ==
    LET signed == Len(s) > 0 /\ s[1] \in {"-", "+"}
        body == IF signed THEN Tail(s) ELSE s
        wellFormed == /\ \A k \in 1..Len(body) : body[k] \in Digits \cup {"."}
                      /\ Count(body, {"."}) <= 1
                      /\ Count(body, Digits) >= 1
    IN  IF ~wellFormed THEN [exc |-> "ValueError"]
        ELSE [exc |-> "none",
              sign |-> IF signed /\ s[1] = "-" THEN -1 ELSE 1,
              num |-> DigitsValue(body, 1, 0),
              frac |-> IF Count(body, {"."}) = 0 THEN 0
                       ELSE Len(body) - PointAt(body)]

\* x < y on floats
FloatLess(x, y) ==
    x.sign * x.num * Pow10(y.frac) < y.sign * y.num * Pow10(x.frac)

-----------------------------------------------------------------------------
(* is_value_out_of_range *)

Returned(b) == [raised |-> "none", ret |-> b]
Raised(e) == [raised |-> e, ret |-> FALSE]

\* the exception classes the except clause names
CaughtOnlyAttributeError == {"AttributeError"}
Caught == {"ValueError", "AttributeError"}

\* the comparison of the return statement
OutsideExclusive(v, lo, hi) == ~FloatLess(lo, v) \/ ~FloatLess(v, hi)
Outside(v, lo, hi) == FloatLess(v, lo) \/ FloatLess(hi, v)

\* the body of the try block: unpacking map(float, split) into two names
\* raises ValueError unless there are exactly two pieces, both floats
RangeTry(val, rng) ==
    LET pieces == Split(rng, "-")
    IN  IF Len(pieces) # 2 THEN Raised("ValueError")
        ELSE LET min_val == Float(pieces[1])
                 max_val == Float(pieces[2])
                 test_val == Float(val)
             IN  IF min_val.exc # "none" THEN Raised(min_val.exc)
                 ELSE IF max_val.exc # "none" THEN Raised(max_val.exc)
                 ELSE IF test_val.exc # "none" THEN Raised(test_val.exc)
                 ELSE Returned(Outside(test_val, min_val, max_val))

is_value_out_of_range(val, rng) ==
    LET r == RangeTry(val, rng)
    IN  IF r.raised \in Caught THEN Returned(FALSE) ELSE r

-----------------------------------------------------------------------------
(* Text and regular expressions                                            *)
(*                                                                         *)
(* A text is a sequence of tokens: a digit, a point, a separator, a blank, *)
(* or a whole word or unit ("ESTIMATION", "g/dL").  A pattern is a         *)
(* sequence of items, each a set of tokens with a quantifier and the       *)
(* number of the capture group it lies in (0: none).                       *)

WS == {" ", "\n", "\t"}

\* re.IGNORECASE: the upper-case form of a token
Fold(tok) ==
    CASE tok = "hb" -> "HB"
      [] tok = "estimation" -> "ESTIMATION"
      [] tok = "g/dL" -> "G/DL"
      [] tok = "g/dl" -> "G/DL"
      [] tok = "million/cmm" -> "MILLION/CMM"
      [] tok = "cells/cmm" -> "CELLS/CMM"
      [] tok = "lakhs/cmm" -> "LAKHS/CMM"
      [] tok = "/cmm" -> "/CMM"
      [] tok = "count" -> "COUNT"
      [] tok = "wbc" -> "WBC"
      [] OTHER -> tok

TokenIn(tok, set) == Fold(tok) \in {Fold(x) : x \in set}

Lit(w) == [set |-> {w}, q |-> "one", grp |-> 0]
One(set, g) == [set |-> set, q |-> "one", grp |-> g]
Opt(set, g) == [set |-> set, q |-> "opt", grp |-> g]
Star(set, g) == [set |-> set, q |-> "star", grp |-> g]
Plus(set, g) == [set |-> set, q |-> "plus", grp |-> g]

MinCount(item) == IF item.q \in {"one", "plus"} THEN 1 ELSE 0

\* how many tokens from pos on the item can take at most
RECURSIVE Run(_, _, _, _)
Run(txt, pos, item, n) ==
    IF /\ pos + n <= Len(txt)
       /\ TokenIn(txt[pos + n], item.set)
       /\ (item.q \in {"star", "plus"} \/ n = 0)
    THEN Run(txt, pos, item, n + 1)
    ELSE n

NoMatch == [ok |-> FALSE, g1 |-> <<>>, g2 |-> <<>>]

\* the backtracking matcher: items k.. of pat against txt from pos; every
\* quantifier is greedy, so an item first takes all it can and gives back
\* one token at a time while the rest of the pattern fails
RECURSIVE MatchFrom(_, _, _, _), Take(_, _, _, _, _)
MatchFrom(pat, k, txt, pos) ==
    IF k > Len(pat) THEN [ok |-> TRUE, g1 |-> <<>>, g2 |-> <<>>]
    ELSE Take(pat, k, txt, pos, Run(txt, pos, pat[k], 0))

Take(pat, k, txt, pos, n) ==
    IF n < MinCount(pat[k]) THEN NoMatch
    ELSE LET rest == MatchFrom(pat, k + 1, txt, pos + n)
             took == SubSeq(txt, pos, pos + n - 1)
         IN  IF rest.ok
             THEN [ok |-> TRUE,
                   g1 |-> IF pat[k].grp = 1 THEN took \o rest.g1 ELSE rest.g1,
                   g2 |-> IF pat[k].grp = 2 THEN took \o rest.g2 ELSE rest.g2]
             ELSE Take(pat, k, txt, pos, n - 1)

\* re.search: the match at the leftmost position that has one
RECURSIVE SearchFrom(_, _, _)
SearchFrom(pat, txt, pos) ==
    IF pos > Len(txt) + 1 THEN NoMatch
    ELSE LET m == MatchFrom(pat, 1, txt, pos)
         IN  IF m.ok THEN m ELSE SearchFrom(pat, txt, pos + 1)

\* a search that keeps the match at the rightmost position instead
RECURSIVE SearchLast(_, _, _)
SearchLast(pat, txt, pos) ==
    IF pos < 1 THEN NoMatch
    ELSE LET m == MatchFrom(pat, 1, txt, pos)
         IN  IF m.ok THEN m ELSE SearchLast(pat, txt, pos - 1)

SearchRightmost(pat, txt) == SearchLast(pat, txt, Len(txt) + 1)
Search(pat, txt) == SearchFrom(pat, txt, 1)

\* the common tail of the five patterns: \s*[:=]?\s*(\d+\.?\d*)\s*(unit)
ValueAndUnit(units) ==
    << Star(WS, 0), Opt({":", "="}, 0), Star(WS, 0),
       Plus(Digits, 1), Opt({"."}, 1), Star(Digits, 1),
       Star(WS, 0), One(units, 2) >>

LAB_TEST_PATTERNS ==
    << [name |-> "HB ESTIMATION",
        pattern |-> << Lit("HB"), Plus(WS, 0), Lit("ESTIMATION") >>
                    \o ValueAndUnit({"g/dL"}),
        unit |-> "g/dL",
        reference_range |-> <<"1", "2", ".", "0", "-", "1", "5", ".", "0">>],
       [name |-> "PCV (PACKED CELL VOLUME)",
        pattern |-> << Lit("PCV"), Star(WS, 0), Opt({"("}, 0), Lit("PACKED"),
                       Plus(WS, 0), Lit("CELL"), Plus(WS, 0), Lit("VOLUME"),
                       Opt({")"}, 0) >>
                    \o ValueAndUnit({"%"}),
        unit |-> "%",
        reference_range |-> <<"3", "6", ".", "0", "-", "4", "6", ".", "0">>],
       [name |-> "RBC COUNT",
        pattern |-> << Lit("RBC"), Plus(WS, 0), Lit("COUNT") >>
                    \o ValueAndUnit({"million/cmm"}),
        unit |-> "million/cmm",
        reference_range |-> <<"4", ".", "5", "-", "5", ".", "5">>],
       [name |-> "WBC COUNT",
        pattern |-> << Lit("WBC"), Plus(WS, 0), Lit("COUNT") >>
                    \o ValueAndUnit({"cells/cmm", "/cmm"}),
        unit |-> "/cmm",
        reference_range |-> <<"4", "0", "0", "0", "-",
                              "1", "1", "0", "0", "0">>],
       [name |-> "PLATELET COUNT",
        pattern |-> << Lit("PLATELET"), Plus(WS, 0), Lit("COUNT") >>
                    \o ValueAndUnit({"lakhs/cmm", "/cmm"}),
        unit |-> "lakhs/cmm",
        reference_range |-> <<"1", ".", "5", "-", "4", ".", "5">>] >>

-----------------------------------------------------------------------------
(* extract_lab_tests *)

\* match.group(2) if len(match.groups()) > 1 else ""
Group2(m) == IF Len(m.g2) > 0 THEN m.g2[1] ELSE ""

\* value = match.group(1)
ValueAsFloatText(m) ==
    IF "." \in {m.g1[k] : k \in 1..Len(m.g1)}
    THEN (IF m.g1[Len(m.g1)] = "." THEN Append(m.g1, "0") ELSE m.g1)
    ELSE m.g1 \o <<".", "0">>
ValueOf(m) == m.g1

\* test.get("unit", <captured unit>)
CapturedUnit(test, m) == Group2(m)
UnitOf(test, m) == IF "unit" \in DOMAIN test THEN test.unit ELSE Group2(m)

\* test.get("reference_range", "")
RangeOf(test) ==
    IF "reference_range" \in DOMAIN test THEN test.reference_range ELSE <<>>

\* the dict appended for one matching definition
ResultOf(test, m) ==
    [test_name |-> test.name,
     test_value |-> ValueOf(m),
     bio_reference_range |-> RangeOf(test),
     test_unit |-> UnitOf(test, m),
     lab_test_out_of_range |->
         is_value_out_of_range(ValueOf(m), RangeOf(test)).ret]

\* where a new record goes in the list
Prepended(results, rec) == <<rec>> \o results
Appended(results, rec) == Append(results, rec)

\* the for loop over the catalog cat, from entry k on, results so far
RECURSIVE ExtractLoop(_, _, _, _)
ExtractLoop(cat, k, txt, results) ==
    IF k > Len(cat) THEN results
    ELSE LET m == Search(cat[k].pattern, txt)
         IN  IF m.ok
             THEN ExtractLoop(cat, k + 1, txt,
                              Appended(results, ResultOf(cat[k], m)))
             ELSE ExtractLoop(cat, k + 1, txt, results)

-----------------------------------------------------------------------------
(* Inputs *)

\* every sequence over S of length at most n
SeqsUpTo(S, n) == UNION {[1..k -> S] : k \in 0..n}

\* the dash-free pieces of the enumerated value and range strings: every
\* string of two digits and the point, and two strings with a letter
PartChars == {"1", "2", "."}
Words == {<<"x">>, <<"1", "x">>}
Parts == SeqsUpTo(PartChars, MaxPartLen) \cup Words
ShortParts == SeqsUpTo(PartChars, 1) \cup {<<"x">>}

\* value strings: a piece, bare or signed
Values == Parts \cup {<<"-">> \o p : p \in Parts}

\* range strings: every string with no dash, with one dash, and with two
\* dashes around short pieces
RangeStrings ==
    Parts
    \cup {a \o <<"-">> \o b : a \in Parts, b \in Parts}
    \cup {a \o <<"-">> \o b \o <<"-">> \o c :
             a \in ShortParts, b \in ShortParts, c \in ShortParts}

\* lines of a report, as OCR reads them
HbLow == <<"HB", " ", "ESTIMATION", ":", " ", "1", "0", ".", "5", " ",
           "g/dL", "\n">>
HbEdge == <<"hb", " ", "estimation", " ", "1", "2", ".", "0", " ",
            "g/dl", "\n">>
HbHigh == <<"HB", " ", "ESTIMATION", " ", "=", "1", "5", ".", "5", "g/dL",
            "\n">>
HbNoisy == <<"HB", " ", "ESTIMATION", ":", " ", "1", "O", ".", "5", " ",
             "g/dL", "\n">>
Pcv == <<"PCV", " ", "(", "PACKED", " ", "CELL", " ", "VOLUME", ")", " ",
         "=", " ", "4", "0", " ", "%", "\n">>
Rbc == <<"RBC", " ", "COUNT", ":", " ", "5", ".", "6", " ", "million/cmm",
         "\n">>
WbcCells == <<"WBC", " ", "COUNT", " ", "9", "0", "0", "0", " ",
              "cells/cmm", "\n">>
PlateletCmm == <<"PLATELET", " ", "COUNT", ":", " ", "2", ".", "5", " ",
                 "/cmm", "\n">>
PlateletHigh == <<"PLATELET", " ", "COUNT", " ", "1", "5", ".", " ",
                  "lakhs/cmm", "\n">>
Heading == <<"PATIENT", " ", "REPORT", "\n">>

Lines == {HbLow, HbEdge, HbHigh, HbNoisy, Pcv, Rbc, WbcCells, PlateletCmm,
          PlateletHigh, Heading}

RECURSIVE Flatten(_)
Flatten(ls) == IF ls = <<>> THEN <<>> ELSE Head(ls) \o Flatten(Tail(ls))

\* the texts of at most MaxLines lines
Texts == {Flatten(ls) : ls \in SeqsUpTo(Lines, MaxLines)}

\* what the OCR engine returns in the request model
OcrTexts == {<<>>, Heading, HbNoisy, HbLow, PlateletCmm \o HbLow}

Requests == 1..NumRequests

\* the "file" field of the form: absent, or an upload with its declared
\* content type (None when the part declares none)
Missing == [present |-> FALSE, has_type |-> FALSE, content_type |-> <<>>]
Upload(ct) == [present |-> TRUE, has_type |-> TRUE, content_type |-> ct]
Untyped == [present |-> TRUE, has_type |-> FALSE, content_type |-> <<>>]

Uploads == {Missing, Untyped, Upload(<<>>), Upload(<<"text", "/", "plain">>),
            Upload(<<"image", "/", "png">>)}

\* uploaded bytes: nothing, bytes that are no image, an encoded image
Buffers == {"empty", "garbage", "image"}

-----------------------------------------------------------------------------
(* The request handler get_lab_tests and extract_text_from_image *)

NoResponse == [status |-> 0, kind |-> "none"]
HTTPError(code, detail) == [status |-> code, kind |-> "error", detail |-> detail]

\* raise HTTPException(status_code=500, detail=f"Error processing image: {e}")
ProcessingError(e) == HTTPError(500, <<"Error processing image: ", e>>)

\* an exception no handler catches: the server answers 500
Unhandled(e) == HTTPError(500, <<"Internal Server Error">>)

\* str.startswith
StartsWith(s, prefix) ==
    Len(s) >= Len(prefix) /\ SubSeq(s, 1, Len(prefix)) = prefix

\* the request arrives; File(...) makes the field required, so a form
\* without it is answered 422 by the framework and the handler never runs
Receive(r) ==
    /\ pc[r] = "idle"
    /\ \E u \in Uploads :
         /\ upload' = [upload EXCEPT ![r] = u]
         /\ IF u.present
            THEN /\ pc' = [pc EXCEPT ![r] = "validate"]
                 /\ response' = response
            ELSE /\ pc' = [pc EXCEPT ![r] = "done"]
                 /\ response' = [response EXCEPT
                        ![r] = HTTPError(422, <<"Field required">>)]
    /\ UNCHANGED <<rangeVars, catalog, contents, img, text, exc, matcher_ran>>

\* the two checks before the file is read; an UploadFile is always truthy,
\* and content_type.startswith on None raises AttributeError
ValidateOutcome(u) ==
    IF ~u.present THEN HTTPError(400, <<"No file uploaded">>)
    ELSE IF ~u.has_type THEN Unhandled("AttributeError")
    ELSE IF ~StartsWith(u.content_type, <<"image", "/">>)
    THEN HTTPError(400, <<"Uploaded file is not an image">>)
    ELSE NoResponse

Validate(r) ==
    /\ pc[r] = "validate"
    /\ LET out == ValidateOutcome(upload[r])
       IN  /\ response' = [response EXCEPT ![r] = out]
           /\ pc' = [pc EXCEPT ![r] = IF out.kind = "none" THEN "read"
                                      ELSE "done"]
    /\ UNCHANGED <<rangeVars, catalog, upload, contents, img, text, exc,
                   matcher_ran>>

\* contents = await file.read()
Read(r) ==
    /\ pc[r] = "read"
    /\ \E b \in Buffers : contents' = [contents EXCEPT ![r] = b]
    /\ pc' = [pc EXCEPT ![r] = "decode"]
    /\ UNCHANGED <<rangeVars, catalog, upload, img, text, exc, matcher_ran,
                   response>>

\* the except clause of extract_text_from_image: any exception of the try
\* block ends the request with the processing error
Fail(r, e) ==
    /\ exc' = [exc EXCEPT ![r] = e]
    /\ response' = [response EXCEPT ![r] = ProcessingError(e)]
    /\ pc' = [pc EXCEPT ![r] = "done"]

\* np.frombuffer and cv2.imdecode: an image decodes to an array, bytes that
\* are no image give None, and an empty buffer gives None or raises,
\* depending on the OpenCV build
Imdecode(b) ==
    CASE b = "image" -> {"array"}
      [] b = "garbage" -> {"None"}
      [] b = "empty" -> {"None", "cv2.error"}

Decode(r) ==
    /\ pc[r] = "decode"
    /\ \E out \in Imdecode(contents[r]) :
         IF out = "cv2.error"
         THEN Fail(r, out) /\ img' = img
         ELSE /\ img' = [img EXCEPT ![r] = out]
              /\ pc' = [pc EXCEPT ![r] = "preprocess"]
              /\ UNCHANGED <<exc, response>>
    /\ UNCHANGED <<rangeVars, catalog, upload, contents, text, matcher_ran>>

\* preprocess_image: cv2.cvtColor raises on None
PreprocessAcceptsNone(image) == "binary"
Preprocess(image) == IF image = "None" THEN "cv2.error" ELSE "binary"

PreprocessStep(r) ==
    /\ pc[r] = "preprocess"
    /\ LET out == Preprocess(img[r])
       IN  IF out = "cv2.error"
           THEN Fail(r, out)
           ELSE /\ pc' = [pc EXCEPT ![r] = "ocr"]
                /\ UNCHANGED <<exc, response>>
    /\ UNCHANGED <<rangeVars, catalog, upload, contents, img, text,
                   matcher_ran>>

\* pytesseract.image_to_string: a text, or an error of the engine
Ocr(r) ==
    /\ pc[r] = "ocr"
    /\ \/ \E t \in OcrTexts :
            /\ text' = [text EXCEPT ![r] = t]
            /\ pc' = [pc EXCEPT ![r] = "match"]
            /\ UNCHANGED <<exc, response>>
       \/ Fail(r, "TesseractError") /\ text' = text
    /\ UNCHANGED <<rangeVars, catalog, upload, contents, img, matcher_ran>>

\* the envelope returned for the list lab_tests
AlwaysSuccess(lab_tests) ==
    [status |-> 200, kind |-> "envelope", is_success |-> TRUE,
     message |-> "", data |-> lab_tests]
Envelope(lab_tests) ==
    IF lab_tests = <<>>
    THEN [status |-> 200, kind |-> "envelope", is_success |-> FALSE,
          message |-> "No lab tests could be identified in the image",
          data |-> <<>>]
    ELSE [status |-> 200, kind |-> "envelope", is_success |-> TRUE,
          message |-> "", data |-> lab_tests]

\* a results list kept at module level and never emptied: each call goes on
\* from the list the last call left
extract_into_shared_list(cat, txt) ==
    LET served == {r \in Requests : matcher_ran[r]}
        longest == CHOOSE r \in served :
                       \A q \in served :
                           Len(response[q].data) <= Len(response[r].data)
    IN  ExtractLoop(cat, 1, txt,
                    IF served = {} THEN <<>> ELSE response[longest].data)

\* extract_lab_tests: results = [], the loop, return results
extract_lab_tests(cat, txt) == ExtractLoop(cat, 1, txt, <<>>)

\* the call of extract_lab_tests and the return statements
Match(r) ==
    /\ pc[r] = "match"
    /\ matcher_ran' = [matcher_ran EXCEPT ![r] = TRUE]
    /\ response' = [response EXCEPT
           ![r] = Envelope(extract_lab_tests(catalog, text[r]))]
    /\ pc' = [pc EXCEPT ![r] = "done"]
    /\ UNCHANGED <<rangeVars, catalog, upload, contents, img, text, exc>>

\* one call of is_value_out_of_range
Pending == [raised |-> "pending", ret |-> FALSE]

Evaluate ==
    /\ verdict = Pending
    /\ verdict' = is_value_out_of_range(value, reference_range)
    /\ UNCHANGED <<value, reference_range, catalog, requestVars>>

-----------------------------------------------------------------------------
(* Specifications *)

IdleRequests ==
    /\ pc = [r \in Requests |-> "idle"]
    /\ upload = [r \in Requests |-> Missing]
    /\ contents = [r \in Requests |-> "unread"]
    /\ img = [r \in Requests |-> "unset"]
    /\ text = [r \in Requests |-> <<>>]
    /\ exc = [r \in Requests |-> "none"]
    /\ matcher_ran = [r \in Requests |-> FALSE]
    /\ response = [r \in Requests |-> NoResponse]

NoCall ==
    /\ value = <<>>
    /\ reference_range = <<>>
    /\ verdict = Returned(FALSE)

\* the server after start-up: the catalog built, no request yet
Init ==
    /\ catalog = LAB_TEST_PATTERNS
    /\ NoCall
    /\ IdleRequests

Next ==
    \E r \in Requests :
        \/ Receive(r)
        \/ Validate(r)
        \/ Read(r)
        \/ Decode(r)
        \/ PreprocessStep(r)
        \/ Ocr(r)
        \/ Match(r)

Spec == Init /\ [][Next]_vars

\* extract_lab_tests as a function: request 1 holds an arbitrary OCR text
ExtractInit ==
    /\ catalog = LAB_TEST_PATTERNS
    /\ NoCall
    /\ pc = [r \in Requests |-> IF r = 1 THEN "match" ELSE "idle"]
    /\ upload = [r \in Requests |->
                   IF r = 1 THEN Upload(<<"image", "/", "png">>) ELSE Missing]
    /\ contents = [r \in Requests |-> IF r = 1 THEN "image" ELSE "unread"]
    /\ img = [r \in Requests |-> IF r = 1 THEN "array" ELSE "unset"]
    /\ \E t \in Texts : text = [r \in Requests |-> IF r = 1 THEN t ELSE <<>>]
    /\ exc = [r \in Requests |-> "none"]
    /\ matcher_ran = [r \in Requests |-> FALSE]
    /\ response = [r \in Requests |-> NoResponse]

ExtractNext == \E r \in Requests : Match(r)

ExtractSpec == ExtractInit /\ [][ExtractNext]_vars

\* is_value_out_of_range as a function of two arbitrary strings
RangeInit ==
    /\ catalog = LAB_TEST_PATTERNS
    /\ value \in Values
    /\ reference_range \in RangeStrings
    /\ verdict = Pending
    /\ IdleRequests

RangeNext == Evaluate

RangeSpec == RangeInit /\ [][RangeNext]_vars

-----------------------------------------------------------------------------
(* Properties *)

\* reading a string as a number, independently of the evaluator: a decimal
\* is digits with at most one point and at least one digit, a number is a
\* decimal with an optional sign, and its value is kept in units of
\* 10^-ScaleDigits
ScaleDigits == MaxPartLen + 2

IsDecimal(s) ==
    /\ \E k \in 1..Len(s) : s[k] \in Digits
    /\ \A k \in 1..Len(s) : s[k] \in Digits \cup {"."}
    /\ \A j, k \in 1..Len(s) : s[j] = "." /\ s[k] = "." => j = k

IsNumber(s) ==
    \/ IsDecimal(s)
    \/ Len(s) > 0 /\ s[1] \in {"-", "+"} /\ IsDecimal(Tail(s))

RECURSIVE ScaledFrom(_, _, _, _)
ScaledFrom(s, k, acc, place) ==
    IF k > Len(s) THEN acc * Pow10(IF place < 0 THEN ScaleDigits ELSE place)
    ELSE IF s[k] = "." THEN ScaledFrom(s, k + 1, acc, ScaleDigits)
    ELSE ScaledFrom(s, k + 1, 10 * acc + DigitVal(s[k]),
                    IF place < 0 THEN place ELSE place - 1)

Scaled(s) ==
    IF s[1] = "-" THEN 0 - ScaledFrom(Tail(s), 1, 0, -1)
    ELSE IF s[1] = "+" THEN ScaledFrom(Tail(s), 1, 0, -1)
    ELSE ScaledFrom(s, 1, 0, -1)

DashAt(s) == CHOOSE k \in 1..Len(s) : s[k] = "-"
OneDash(s) == \E k \in 1..Len(s) : s[k] = "-" /\ \A j \in 1..Len(s) : s[j] = "-" => j = k
LowText(s) == SubSeq(s, 1, DashAt(s) - 1)
HighText(s) == SubSeq(s, DashAt(s) + 1, Len(s))

\* a range string "a-b": one dash between two numbers
WellFormedRange(s) ==
    OneDash(s) /\ IsNumber(LowText(s)) /\ IsNumber(HighText(s))

OutsideRange(v, rng) ==
    Scaled(v) < Scaled(LowText(rng)) \/ Scaled(v) > Scaled(HighText(rng))

Called == verdict # Pending

\* C1: for a range "a-b" with a <= b and a numeric value v, the call
\* returns true exactly when v < a or v > b, so false on a <= v <= b,
\* both boundaries included
C1_OutOfRangeIffOutside ==
    (/\ Called
     /\ WellFormedRange(reference_range)
     /\ Scaled(LowText(reference_range)) <= Scaled(HighText(reference_range))
     /\ IsNumber(value))
    => verdict = Returned(OutsideRange(value, reference_range))

\* a call with the value on the upper boundary of a proper range
C1_Witness ==
    /\ Called
    /\ WellFormedRange(reference_range)
    /\ IsNumber(value)
    /\ Scaled(LowText(reference_range)) < Scaled(HighText(reference_range))
    /\ Scaled(value) = Scaled(HighText(reference_range))
    /\ verdict = Returned(FALSE)

\* C2: a call whose value is not numeric or whose range string is
\* malformed raises nothing and returns false
C2_BadInputGivesFalse ==
    (Called /\ (~IsNumber(value) \/ ~WellFormedRange(reference_range)))
    => verdict = Returned(FALSE)

\* a call with a letter for the value and a well-formed range
C2_Witness ==
    /\ Called
    /\ value = <<"x">>
    /\ reference_range = <<"1", "-", "1", "1">>
    /\ verdict = Returned(FALSE)

\* the requests whose text went through extract_lab_tests, and their lists
Matched(r) == pc[r] = "done" /\ matcher_ran[r]
Data(r) == response[r].data

CatalogIndex(name) ==
    CHOOSE k \in 1..Len(LAB_TEST_PATTERNS) : LAB_TEST_PATTERNS[k].name = name
Definition(name) == LAB_TEST_PATTERNS[CatalogIndex(name)]

\* the positions of txt where pat matches, and the leftmost of them
Occurrences(pat, txt) ==
    {pos \in 1..(Len(txt) + 1) : MatchFrom(pat, 1, txt, pos).ok}
Occurs(pat, txt) == Occurrences(pat, txt) # {}
FirstOccurrence(pat, txt) ==
    CHOOSE pos \in Occurrences(pat, txt) :
        \A other \in Occurrences(pat, txt) : pos <= other

\* C3: the records are in catalog order, whatever the order of the tests
\* in the text
C3_CatalogOrder ==
    \A r \in Requests :
        Matched(r) =>
            \A i, j \in 1..Len(Data(r)) :
                i < j => CatalogIndex(Data(r)[i].test_name)
                             < CatalogIndex(Data(r)[j].test_name)

\* a text with the PLATELET COUNT line before the HB line, HB reported first
C3_Witness ==
    /\ Matched(1)
    /\ text[1] = PlateletCmm \o HbLow
    /\ Len(Data(1)) = 2
    /\ Data(1)[1].test_name = "HB ESTIMATION"
    /\ Data(1)[2].test_name = "PLATELET COUNT"

\* C4: exactly one record per definition whose pattern occurs in the text,
\* with the value of the first occurrence, none for the others; no name
\* twice and no more records than catalog entries
C4_OneRecordPerMatchedDefinition ==
    \A r \in Requests :
        Matched(r) =>
            /\ Len(Data(r)) <= Len(LAB_TEST_PATTERNS)
            /\ \A k \in 1..Len(LAB_TEST_PATTERNS) :
                 LET def == LAB_TEST_PATTERNS[k]
                     recs == {i \in 1..Len(Data(r)) :
                                 Data(r)[i].test_name = def.name}
                 IN  IF Occurs(def.pattern, text[r])
                     THEN /\ Cardinality(recs) = 1
                          /\ \A i \in recs :
                               Data(r)[i].test_value =
                                   MatchFrom(def.pattern, 1, text[r],
                                       FirstOccurrence(def.pattern, text[r])).g1
                     ELSE recs = {}

\* a text with two HB lines, reported once with the value of the first
C4_Witness ==
    /\ Matched(1)
    /\ text[1] = HbLow \o HbHigh
    /\ Len(Data(1)) = 1
    /\ Data(1)[1].test_value = <<"1", "0", ".", "5">>

\* C5: test_unit is the canonical unit of the definition, never the unit
\* text captured from the input
C5_CanonicalUnit ==
    \A r \in Requests :
        Matched(r) =>
            \A i \in 1..Len(Data(r)) :
                Data(r)[i].test_unit = Definition(Data(r)[i].test_name).unit

\* a WBC line written with cells/cmm and a PLATELET line written with /cmm
C5_Witness ==
    /\ Matched(1)
    /\ text[1] = WbcCells \o PlateletCmm
    /\ Len(Data(1)) = 2
    /\ Data(1)[1].test_unit = "/cmm"
    /\ Data(1)[2].test_unit = "lakhs/cmm"

\* C8: test_value is the captured group 1 unchanged, bio_reference_range is
\* the definition's range, and the flag is true exactly when the value lies
\* outside that range; the HB and PCV lines of the specification give the
\* records it states
C8_RecordFields ==
    \A r \in Requests :
        Matched(r) =>
            /\ \A i \in 1..Len(Data(r)) :
                 LET rec == Data(r)[i]
                     def == Definition(rec.test_name)
                 IN  /\ rec.test_value =
                            MatchFrom(def.pattern, 1, text[r],
                                FirstOccurrence(def.pattern, text[r])).g1
                     /\ rec.bio_reference_range = def.reference_range
                     /\ rec.lab_test_out_of_range =
                            OutsideRange(rec.test_value, def.reference_range)
            /\ text[r] = HbLow =>
                 Data(r) = << [test_name |-> "HB ESTIMATION",
                               test_value |-> <<"1", "0", ".", "5">>,
                               bio_reference_range |->
                                   <<"1", "2", ".", "0", "-", "1", "5", ".", "0">>,
                               test_unit |-> "g/dL",
                               lab_test_out_of_range |-> TRUE] >>
            /\ text[r] = Pcv =>
                 /\ Len(Data(r)) = 1
                 /\ Data(r)[1].test_value = <<"4", "0">>
                 /\ Data(r)[1].lab_test_out_of_range = FALSE

\* the PCV line of the specification, reported in range
C8_Witness ==
    /\ Matched(1)
    /\ text[1] = Pcv
    /\ Len(Data(1)) = 1
    /\ Data(1)[1].test_name = "PCV (PACKED CELL VOLUME)"
    /\ Data(1)[1].lab_test_out_of_range = FALSE

MatchesNothing(txt) ==
    \A k \in 1..Len(LAB_TEST_PATTERNS) :
        ~Occurs(LAB_TEST_PATTERNS[k].pattern, txt)

\* C6 as stated: a text that matches no pattern ends as a success whose
\* data is the empty list
C6_EmptyMatchIsSuccess ==
    \A r \in Requests :
        (Matched(r) /\ MatchesNothing(text[r])) =>
            /\ response[r].kind = "envelope"
            /\ response[r].status = 200
            /\ response[r].is_success = TRUE
            /\ response[r].data = <<>>

\* C6 amended: a text that matches no pattern raises no error and is
\* answered 200 with the empty list as data, in an envelope whose
\* is_success is false and that carries the no-tests message
C6_EmptyMatchIsNoError ==
    \A r \in Requests :
        (Matched(r) /\ MatchesNothing(text[r])) =>
            /\ exc[r] = "none"
            /\ response[r].kind = "envelope"
            /\ response[r].status = 200
            /\ response[r].data = <<>>
            /\ response[r].is_success = FALSE
            /\ response[r].message =
                   "No lab tests could be identified in the image"

\* a request whose OCR text is a heading only, answered
C6_Witness ==
    /\ Matched(1)
    /\ text[1] = Heading
    /\ response[1].status = 200
    /\ response[1].data = <<>>

\* C7: a failure of decoding, preprocessing or OCR ends the request with
\* the 500 processing error that carries the cause, the matcher is not run
\* and no envelope is returned; undecodable bytes always end so
C7_FailureAbortsPipeline ==
    \A r \in Requests :
        /\ exc[r] # "none" =>
             /\ pc[r] = "done"
             /\ ~matcher_ran[r]
             /\ response[r].kind = "error"
             /\ response[r].status = 500
             /\ response[r].detail = <<"Error processing image: ", exc[r]>>
        /\ (pc[r] = "done" /\ contents[r] \in {"garbage", "empty"}) =>
             /\ exc[r] # "none"
             /\ response[r].status = 500

\* a request with bytes that are no image, ended with the processing error
C7_Witness ==
    /\ pc[1] = "done"
    /\ contents[1] = "garbage"
    /\ exc[1] = "cv2.error"
    /\ response[1].status = 500
    /\ ~matcher_ran[1]

\* C9: the catalog never changes, and two served requests with the same
\* OCR text got the same answer, whatever ran before or between them
C9_Stateless ==
    /\ catalog = LAB_TEST_PATTERNS
    /\ \A r, q \in Requests :
         (Matched(r) /\ Matched(q) /\ text[r] = text[q]) =>
             response[r] = response[q]

\* two requests served with the same text, one HB line
C9_Witness ==
    /\ Matched(1)
    /\ Matched(2)
    /\ text[1] = HbLow
    /\ text[2] = HbLow
    /\ Len(Data(1)) = 1

\* an upload the endpoint must refuse: none, or one whose declared content
\* type is absent or does not begin with image/
NotAnImage(u) ==
    \/ ~u.present
    \/ ~u.has_type
    \/ ~StartsWith(u.content_type, <<"image", "/">>)

\* C10 as stated: every missing or non-image upload is answered 400 before
\* the file is read, and 500 comes only from a processing failure of an
\* accepted image
C10_RefusedWith400 ==
    \A r \in Requests :
        pc[r] = "done" =>
            /\ NotAnImage(upload[r]) =>
                 /\ response[r].status = 400
                 /\ contents[r] = "unread"
            /\ response[r].status = 500 =>
                 /\ ~NotAnImage(upload[r])
                 /\ exc[r] # "none"

====
